---- MODULE Spec2Model ----
(***************************************************************************)
(* mqtt2oregonv1: an MQTT to Oregon Scientific V1 (433 MHz) gateway.       *)
(* Model of src/mqtt2oregonv1.ino: the reading, the checksum, the frame    *)
(* encoder, the waveform transmitter and the control loop.                 *)
(*                                                                         *)
(* Representation.                                                         *)
(*  - A uint32_t / int value that is used bitwise is a Word: a function    *)
(*    from bit position 0..31 to 0 or 1 (two's complement for an int).     *)
(*  - The float temperature is held in hundredths of a degree Celsius      *)
(*    (2137 is 21.37 C).  For such values the float comparisons with -99,  *)
(*    0 and 99 and the conversion (int)(temp * 10) are exact: the product  *)
(*    of the float nearest to h/100 and 10 rounds to h/10 when h is a      *)
(*    multiple of 10 and stays at least 0.1 away from an integer           *)
(*    otherwise, so the cast gives h/10 with the fraction dropped.         *)
(*  - Time is in microseconds.  The sketch reads the clock only in         *)
(*    millis() - lastLoopRun >= 1000, so the clock and lastLoopRun are     *)
(*    held as their difference, elapsed, which every delay() and           *)
(*    delayMicroseconds() advances and which is followed up to ElapsedCap  *)
(*    (any larger value compares the same).                                *)
(*  - WiFi.status(), mqtt.connected() and mqtt.connect() answer as the     *)
(*    network decides: each read may go either way.                        *)
(***************************************************************************)
EXTENDS Integers, Sequences, FiniteSets, TLC

VARIABLES
    pc,            \* position of the single thread of control
    sensor_data,   \* the global thn128_t: [addr, ch, temp, lowbat]
    pin,           \* level driven on TX_PIN: 0 is LOW, 1 is HIGH
    mqttConnected, \* mqtt.connected() as the client last knew it
    mqtt_error,    \* static uint8_t mqtt_error of connect_mqtt
    msg,           \* the payload last handed to mqtt_callback, NoMsg before the first
    elapsed,       \* microseconds since lastLoopRun was set: millis() - lastLoopRun
    loopSecs,      \* static uint32_t loopSecs of loop
    rep,           \* i of send_data
    pre,           \* i of tx_preamble
    bit,           \* i of tx_data
    payload,       \* encode_data's result, the argument of tx_data
    crcIn,         \* argument of a direct call of calc_crc
    crcOut,        \* its result
    \* observations of the run
    wave,          \* pin level and length of every delay of the send_data call in progress
    frames,        \* the payloads handed to tx_data by the send_data call in progress
    txReading,     \* sensor_data as it was when the send_data call in progress started
    txCount,       \* send_data calls started since boot
    drift,         \* lateness of the ticks since the last send_data start, summed
    writes,        \* digitalWrite calls of the send_data call in progress
    failRun,       \* mqtt.connect calls that failed since the last one that succeeded
    recovered,     \* the connect_mqtt call in progress has connected after failing
    retryGap,      \* microseconds delayed since the last failed mqtt.connect of the run
    lastGood       \* the last payload that parsed in mqtt_callback, NoMsg before the first

encVars == <<crcIn, crcOut>>
netVars == <<mqttConnected, mqtt_error, msg, failRun, recovered, retryGap, lastGood>>
timeVars == <<elapsed, loopSecs, drift>>
txVars == <<rep, pre, bit, wave, frames, txReading, txCount, writes>>

vars == <<pc, sensor_data, pin, payload, encVars, netVars, timeVars, txVars>>

(***************************************************************************)
(* 32-bit words                                                            *)
(***************************************************************************)
BitPos == 0..31

Abs(n) == IF n < 0 THEN -n ELSE n

\* bit i of the two's complement representation of the int n
IntBit(n, i) == IF i = 31 THEN (IF n < 0 THEN 1 ELSE 0) ELSE (n \div (2^i)) % 2

\* an int (or a smaller unsigned type) converted to 32 bits
U32(n) == [i \in BitPos |-> IntBit(n, i)]

ZeroWord == [i \in BitPos |-> 0]

\* w << k
Shl(w, k) == [i \in BitPos |-> IF i >= k THEN w[i - k] ELSE 0]

\* w >> k (unsigned)
Shr(w, k) == [i \in BitPos |-> IF i + k <= 31 THEN w[i + k] ELSE 0]

\* a | b
BitOr(a, b) == [i \in BitPos |-> IF a[i] = 1 \/ b[i] = 1 THEN 1 ELSE 0]

\* a & b
BitAnd(a, b) == [i \in BitPos |-> IF a[i] = 1 /\ b[i] = 1 THEN 1 ELSE 0]

RECURSIVE WordVal(_, _)
WordVal(w, i) == IF i < 0 THEN 0 ELSE w[i] * (2^i) + WordVal(w, i - 1)

\* the value of a word below 2^31, as the operand of integer arithmetic
ToInt(w) == WordVal(w, 30)

(***************************************************************************)
(* The macros, lines 35-38                                                 *)
(***************************************************************************)
\* variant: the product rounded to the nearest integer
FloatMulToInt_round(h, k) ==
    LET p == h * k
    IN  IF p >= 0 THEN (p + 50) \div 100 ELSE -((50 - p) \div 100)

\* (int) of a float product temp * k, temp in hundredths: toward zero
FloatMulToInt(h, k) ==
    LET p == h * k
    IN  IF p >= 0 THEN p \div 100 ELSE -((-p) \div 100)

\* variant: the address not masked to its three bits
SET_ADDR_nomask(x) == Shl(U32(x), 0)

\* #define SET_ADDR(x)  (x & 0x07) << 0
SET_ADDR(x) == Shl(BitAnd(U32(x), U32(7)), 0)

\* variant: the channel stored one-based
SET_CH_onebased(x) == Shl(BitAnd(U32(x), U32(3)), 6)

\* #define SET_CH(x)    ((x - 1) & 0x03) << 6
SET_CH(x) == Shl(BitAnd(U32(x - 1), U32(3)), 6)

\* #define SET_TEMP(x)  (((uint32_t)x / 100) % 10) << 16
\*                    | (((uint32_t)x / 10) % 10) << 12 | (x % 10) << 8
\* x is never negative where the macro is used
SET_TEMP(x) ==
    BitOr(BitOr(Shl(U32((x \div 100) % 10), 16),
                Shl(U32((x \div 10) % 10), 12)),
          Shl(U32(x % 10), 8))

\* #define SET_CRC(x)   (uint32_t)x << 24
SET_CRC(x) == Shl(U32(x), 24)

(***************************************************************************)
(* calc_crc, lines 141-147                                                 *)
(***************************************************************************)
\* variant: the carry of the byte sum dropped instead of folded
calc_crc_nofold(data) ==
    LET b2  == ToInt(BitAnd(Shr(data, 16), U32(255)))
        b1  == ToInt(BitAnd(Shr(data, 8), U32(255)))
        b0  == ToInt(BitAnd(Shr(data, 0), U32(255)))
    IN  ((b2 + b1 + b0) % 65536) % 256

calc_crc(data) ==
    LET b2  == ToInt(BitAnd(Shr(data, 16), U32(255)))
        b1  == ToInt(BitAnd(Shr(data, 8), U32(255)))
        b0  == ToInt(BitAnd(Shr(data, 0), U32(255)))
        crc == (b2 + b1 + b0) % 65536                           \* uint16_t
        fld == ((crc \div 256) + ToInt(BitAnd(U32(crc), U32(255)))) % 65536
    IN  fld % 256                                               \* (uint8_t)

(***************************************************************************)
(* encode_data, lines 155-173                                              *)
(***************************************************************************)
\* variant: the sign bit set before the range check
TempBits_signfirst(temp) ==
    LET sign == IF temp < 0 THEN Shl(U32(1), 21) ELSE ZeroWord
    IN  IF temp > -9900 /\ temp < 9900
        THEN BitOr(sign, SET_TEMP(FloatMulToInt(Abs(temp), 10)))
        ELSE sign

\* lines 160-167: the temperature and sign bits OR-ed into the payload
TempBits(temp) ==
    IF temp > -9900 /\ temp < 9900
    THEN IF temp < 0
         THEN BitOr(Shl(U32(1), 21), SET_TEMP(FloatMulToInt(temp, -10)))
         ELSE SET_TEMP(FloatMulToInt(temp, 10))
    ELSE ZeroWord

encode_data(data) ==
    LET p1 == SET_ADDR(data.addr)
        p2 == BitOr(p1, SET_CH(data.ch))
        p3 == BitOr(p2, TempBits(data.temp))
        p4 == IF data.lowbat THEN BitOr(p3, Shl(U32(1), 23)) ELSE p3
    IN  BitOr(p4, SET_CRC(calc_crc(p4)))

(***************************************************************************)
(* Inputs of the encoder checks                                            *)
(***************************************************************************)
\* largest temperature magnitude tried, in hundredths of a degree
MaxTemp == 10100
\* spacing of the sampled temperatures between the listed ones
TempStep == 977

AddrVals == {0, 4, 7, 13, 255}
ChVals == {0, 1, 3, 4, 255}
TempVals ==
    {-10000, -9901, -9900, -9899, -9890, -8990, -536, -530, -10, -4, 0, 4, 10,
     2100, 2130, 2137, 9895, 9890, 9899, 9900, 9901, 10000}
    \cup {t \in (-MaxTemp)..MaxTemp : t % TempStep = 0}
HiBytes == {0, 255}

Readings == [addr : AddrVals, ch : ChVals, temp : TempVals, lowbat : BOOLEAN]

\* the initializer of sensor_data, lines 56-61
DefaultReading == [addr |-> 4, ch |-> 1, temp |-> 2100, lowbat |-> FALSE]

(***************************************************************************)
(* Program constants                                                       *)
(***************************************************************************)
\* line 272: a tick is due when millis() - lastLoopRun >= 1000 (in us)
TickUs == 1000000
\* line 274: loopSecs % 30
TxEvery == 30
\* line 230: repetitions of the frame in send_data
Reps == 2
\* line 201: pulses of the preamble
PrePulses == 12
\* line 213: bits of the payload
FrameBits == 32
\* line 128: mqtt_error++ >= 12
MaxMqttErrors == 12

(***************************************************************************)
(* Bounds of the model                                                     *)
(***************************************************************************)
\* ticks counted per boot: ticks 0 .. MaxSecs - 1 are taken
MaxSecs == 31
\* the summed lateness of ticks is followed up to this many microseconds
DriftCap == 100000

\* elapsed is followed up to the tick length plus the largest drift
ElapsedCap == TickUs + DriftCap

Min(x, y) == IF x <= y THEN x ELSE y

\* millis() - lastLoopRun after a delay of us microseconds
After(us) == Min(elapsed + us, ElapsedCap)

(***************************************************************************)
(* Inbound MQTT payloads: bytes that deserializeJson rejects, and JSON      *)
(* documents holding some of the four keys.                                *)
(***************************************************************************)
Payload(kind, keys, c, a, t, l) ==
    [kind |-> kind, keys |-> keys, channel |-> c, address |-> a,
     temperature |-> t, lowbattery |-> l]

NoMsg == Payload("none", {}, 0, 0, 0, FALSE)

AllKeys == {"channel", "address", "temperature", "lowbattery"}

Messages ==
    { Payload("garbage", {}, 0, 0, 0, FALSE),
      Payload("json", AllKeys, 2, 13, -530, TRUE),
      Payload("json", {"temperature"}, 0, 0, 9900, FALSE) }

\* line 91-92: DeserializationError error = deserializeJson(json, payload)
DeserializationError(m) == m.kind # "json"

\* json[key] converted to the field's type: 0 / false for a missing key
JsonGet(m, key, default) == IF key \in m.keys THEN m[key] ELSE default

\* variant: the fields are assigned whether or not parsing failed
mqtt_callback_unchecked(data, m) ==
    [ch     |-> JsonGet(m, "channel", 0),
     addr   |-> JsonGet(m, "address", 0),
     temp   |-> JsonGet(m, "temperature", 0),
     lowbat |-> JsonGet(m, "lowbattery", FALSE)]

\* variant: only the keys present in the document are assigned
mqtt_callback_merge(data, m) ==
    IF DeserializationError(m)
    THEN data
    ELSE [ch     |-> JsonGet(m, "channel", data.ch),
          addr   |-> JsonGet(m, "address", data.addr),
          temp   |-> JsonGet(m, "temperature", data.temp),
          lowbat |-> JsonGet(m, "lowbattery", data.lowbat)]

\* mqtt_callback, lines 91-100: the reading after the handler has run on m
mqtt_callback(data, m) ==
    IF DeserializationError(m)
    THEN data
    ELSE [ch     |-> JsonGet(m, "channel", 0),
          addr   |-> JsonGet(m, "address", 0),
          temp   |-> JsonGet(m, "temperature", 0),
          lowbat |-> JsonGet(m, "lowbattery", FALSE)]

(***************************************************************************)
(* Power-up and ESP.restart(): statics and globals take their              *)
(* initializers.  The sketch never writes TX_PIN before the first          *)
(* preamble, so the level pinMode(TX_PIN, OUTPUT) drives is whatever the   *)
(* output latch holds: either level.                                       *)
(***************************************************************************)
Boot(p, sd, lvl, mc, me, m, el, ls, r, pr, b, w, f, tr, tc, d, wr, fr, pv, rg, lg) ==
    /\ p = "setup"
    /\ sd = DefaultReading
    /\ lvl \in {0, 1}
    /\ mc = FALSE
    /\ me = 0
    /\ m = NoMsg
    /\ el = 0
    /\ ls = 0
    /\ r = 0
    /\ pr = 0
    /\ b = 0
    /\ w = <<>>
    /\ f = <<>>
    /\ tr = DefaultReading
    /\ tc = 0
    /\ d = 0
    /\ wr = 0
    /\ fr = 0
    /\ pv = FALSE
    /\ rg = 0
    /\ lg = NoMsg

Init ==
    /\ Boot(pc, sensor_data, pin, mqttConnected, mqtt_error, msg, elapsed,
            loopSecs, rep, pre, bit, wave, frames, txReading, txCount, drift,
            writes, failRun, recovered, retryGap, lastGood)
    /\ payload = ZeroWord
    /\ crcIn = ZeroWord
    /\ crcOut = 0

(***************************************************************************)
(* setup, lines 240-254, and connect_wifi, lines 65-77                     *)
(***************************************************************************)
\* pinMode, Serial.begin, delay(250), WiFi.mode, then connect_wifi()
Setup ==
    /\ pc = "setup"
    /\ elapsed' = After(250000)
    /\ pc' = "setup_wifi"
    /\ UNCHANGED <<sensor_data, pin, payload, encVars, netVars, loopSecs, drift, txVars>>

\* lines 66-67: delay(100); WiFi.begin(...)
ConnectWifiBegin ==
    /\ pc \in {"setup_wifi", "loop_wifi"}
    /\ elapsed' = After(100000)
    /\ pc' = IF pc = "setup_wifi" THEN "setup_wifi_wait" ELSE "loop_wifi_wait"
    /\ UNCHANGED <<sensor_data, pin, payload, encVars, netVars, loopSecs, drift, txVars>>

\* lines 68-71: while (WiFi.status() != WL_CONNECTED) { delay(250); ... }
ConnectWifiWait ==
    /\ pc \in {"setup_wifi_wait", "loop_wifi_wait"}
    /\ elapsed' = After(250000)
    /\ UNCHANGED <<pc, sensor_data, pin, payload, encVars, netVars, loopSecs, drift, txVars>>

\* lines 72-77: connected; back in setup (mqtt.setServer) or in loop (line 272)
ConnectWifiDone ==
    /\ pc \in {"setup_wifi_wait", "loop_wifi_wait"}
    /\ pc' = IF pc = "setup_wifi_wait" THEN "loop" ELSE "tick"
    /\ UNCHANGED <<sensor_data, pin, payload, encVars, netVars, timeVars, txVars>>

(***************************************************************************)
(* loop, lines 257-282                                                     *)
(***************************************************************************)
\* The loop spins: passes in which no tick is due, the link is up and no
\* message arrives change nothing, and time runs on to the moment the tick
\* falls due.
Elapse ==
    /\ pc = "loop"
    /\ elapsed < TickUs
    /\ elapsed' = TickUs
    /\ UNCHANGED <<pc, sensor_data, pin, payload, encVars, netVars, loopSecs, drift, txVars>>

\* line 261, WiFi.status() == WL_CONNECTED
LoopWifiUp ==
    /\ pc = "loop"
    /\ pc' = "mqtt_check"
    /\ UNCHANGED <<sensor_data, pin, payload, encVars, netVars, timeVars, txVars>>

\* lines 266-269, WiFi.status() != WL_CONNECTED: connect_wifi()
LoopWifiDown ==
    /\ pc = "loop"
    /\ pc' = "loop_wifi"
    /\ UNCHANGED <<sensor_data, pin, payload, encVars, netVars, timeVars, txVars>>

\* line 262 and line 110: mqtt.connected() is true (the connection is alive)
MqttConnected ==
    /\ pc \in {"mqtt_check", "connect_mqtt"}
    /\ mqttConnected
    /\ recovered' = FALSE
    /\ pc' = "mqtt_loop"
    /\ UNCHANGED <<sensor_data, pin, payload, encVars, mqttConnected, mqtt_error, msg, failRun, retryGap, lastGood, timeVars, txVars>>

\* line 262 and line 110: mqtt.connected() is false (never connected, or the
\* connection was lost): connect_mqtt() is entered, or its loop body is
MqttNotConnected ==
    /\ pc \in {"mqtt_check", "connect_mqtt"}
    /\ mqttConnected' = FALSE
    /\ pc' = IF pc = "mqtt_check" THEN "connect_mqtt" ELSE "mqtt_connect"
    /\ UNCHANGED <<sensor_data, pin, payload, encVars, mqtt_error, msg, failRun, recovered, retryGap, lastGood, timeVars, txVars>>

\* variant: a successful connect that leaves the failure counter as it is
ConnectMqttOk_noreset ==
    /\ pc = "mqtt_connect"
    /\ mqttConnected' = TRUE
    /\ recovered' = (recovered \/ failRun > 0)
    /\ failRun' = 0
    /\ retryGap' = 0
    /\ pc' = "connect_mqtt"
    /\ UNCHANGED <<sensor_data, pin, payload, encVars, mqtt_error, msg, lastGood, timeVars, txVars>>

\* lines 118-121: mqtt.connect(clientid) succeeds
ConnectMqttOk ==
    /\ pc = "mqtt_connect"
    /\ mqttConnected' = TRUE
    /\ mqtt_error' = 0
    /\ recovered' = (recovered \/ failRun > 0)
    /\ failRun' = 0
    /\ retryGap' = 0
    /\ pc' = "connect_mqtt"
    /\ UNCHANGED <<sensor_data, pin, payload, encVars, msg, lastGood, timeVars, txVars>>

\* lines 122-134: mqtt.connect fails, mqtt_error++ >= 12 is false: delay(5000)
ConnectMqttFail ==
    /\ pc = "mqtt_connect"
    /\ ~(mqtt_error >= MaxMqttErrors)
    /\ mqtt_error' = (mqtt_error + 1) % 256
    /\ elapsed' = After(5000000)
    /\ retryGap' = 5000000
    /\ failRun' = failRun + 1
    /\ pc' = "connect_mqtt"
    /\ UNCHANGED <<sensor_data, pin, payload, encVars, mqttConnected, msg, recovered, lastGood, loopSecs, drift, txVars>>

\* variant: the counter incremented before it is compared (++mqtt_error >= 12)
ConnectMqttRestart_pre ==
    /\ pc = "mqtt_connect"
    /\ mqtt_error + 1 >= MaxMqttErrors
    /\ Boot(pc', sensor_data', pin', mqttConnected', mqtt_error', msg', elapsed',
            loopSecs', rep', pre', bit', wave', frames', txReading', txCount', drift',
            writes', failRun', recovered', retryGap', lastGood')
    /\ UNCHANGED <<payload, encVars>>

\* lines 128-132: mqtt.connect fails, mqtt_error++ >= 12 is true: delay(3000);
\* ESP.restart()
ConnectMqttRestart ==
    /\ pc = "mqtt_connect"
    /\ mqtt_error >= MaxMqttErrors
    /\ Boot(pc', sensor_data', pin', mqttConnected', mqtt_error', msg', elapsed',
            loopSecs', rep', pre', bit', wave', frames', txReading', txCount', drift',
            writes', failRun', recovered', retryGap', lastGood')
    /\ UNCHANGED <<payload, encVars>>

\* lines 264-265: mqtt.setCallback; mqtt.loop() with no message waiting
MqttLoopIdle ==
    /\ pc = "mqtt_loop"
    /\ pc' = "tick"
    /\ UNCHANGED <<sensor_data, pin, payload, encVars, netVars, timeVars, txVars>>

\* line 265: mqtt.loop() reads a PUBLISH packet and calls the callback
MqttLoopDeliver ==
    /\ pc = "mqtt_loop"
    /\ \E m \in Messages : msg' = m
    /\ pc' = "callback"
    /\ UNCHANGED <<sensor_data, pin, payload, encVars, mqttConnected, mqtt_error, failRun, recovered, retryGap, lastGood, timeVars, txVars>>

\* mqtt_callback, lines 81-101, then mqtt.loop() returns
MqttCallback ==
    /\ pc = "callback"
    /\ sensor_data' = mqtt_callback(sensor_data, msg)
    /\ lastGood' = IF DeserializationError(msg) THEN lastGood ELSE msg
    /\ pc' = "tick"
    /\ UNCHANGED <<pin, payload, encVars, mqttConnected, mqtt_error, msg, failRun, recovered, retryGap, timeVars, txVars>>

\* line 272: (millis() - lastLoopRun) >= 1000 is false
TickNotDue ==
    /\ pc = "tick"
    /\ elapsed < TickUs
    /\ pc' = "loop"
    /\ UNCHANGED <<sensor_data, pin, payload, encVars, netVars, timeVars, txVars>>

\* lines 272-280: a tick on which no transmission is due; loopSecs++
TickWait ==
    /\ pc = "tick"
    /\ elapsed >= TickUs
    /\ loopSecs < MaxSecs
    /\ loopSecs % TxEvery # 0
    /\ drift' = Min(drift + (elapsed - TickUs), DriftCap)
    /\ elapsed' = 0
    /\ loopSecs' = loopSecs + 1
    /\ pc' = "loop"
    /\ UNCHANGED <<sensor_data, pin, payload, encVars, netVars, txVars>>

\* variant: tick 0 is only counted, the first transmission comes on tick 30
TickSend_notfirst ==
    /\ pc = "tick"
    /\ elapsed >= TickUs
    /\ loopSecs < MaxSecs
    /\ loopSecs % TxEvery = 0
    /\ drift' = Min(drift + (elapsed - TickUs), DriftCap)
    /\ elapsed' = 0
    /\ pc' = (IF loopSecs = 0 THEN "loop" ELSE "send_data")
    /\ loopSecs' = (IF loopSecs = 0 THEN 1 ELSE loopSecs)
    /\ UNCHANGED <<sensor_data, pin, payload, encVars, netVars, txVars>>

\* lines 272-275: a tick with loopSecs % 30 == 0: send_data(&sensor_data)
TickSend ==
    /\ pc = "tick"
    /\ elapsed >= TickUs
    /\ loopSecs < MaxSecs
    /\ loopSecs % TxEvery = 0
    /\ drift' = Min(drift + (elapsed - TickUs), DriftCap)
    /\ elapsed' = 0
    /\ pc' = "send_data"
    /\ UNCHANGED <<sensor_data, pin, payload, encVars, netVars, loopSecs, txVars>>

(***************************************************************************)
(* send_data, lines 223-237, and the waveform, lines 180-219               *)
(***************************************************************************)
\* a delay of us microseconds with the pin at level lvl
Seg(lvl, us) == <<lvl, us>>

\* lines 225-230: the prints, i = 0
SendDataBegin ==
    /\ pc = "send_data"
    /\ rep' = 0
    /\ wave' = <<>>
    /\ frames' = <<>>
    /\ txReading' = sensor_data
    /\ txCount' = txCount + 1
    /\ writes' = 0
    /\ drift' = 0
    /\ pc' = "send_rep"
    /\ UNCHANGED <<sensor_data, pin, payload, encVars, netVars, elapsed, loopSecs, pre, bit>>

\* line 230, i < 2: tx_preamble() is entered
SendDataRep ==
    /\ pc = "send_rep"
    /\ rep < Reps
    /\ pre' = 0
    /\ pc' = "tx_preamble"
    /\ UNCHANGED <<sensor_data, pin, payload, encVars, netVars, timeVars, rep, bit, wave, frames, txReading, txCount, writes>>

\* lines 201-206, one pulse: delay 1250, HIGH, delay 1750, LOW
TxPreamblePulse ==
    /\ pc = "tx_preamble"
    /\ pre < PrePulses
    /\ wave' = wave \o <<Seg(pin, 1250), Seg(1, 1750)>>
    /\ pin' = 0
    /\ elapsed' = After(1250 + 1750)
    /\ pre' = pre + 1
    /\ writes' = writes + 2
    /\ UNCHANGED <<pc, sensor_data, payload, encVars, netVars, loopSecs, drift, rep, bit, frames, txReading, txCount>>

\* line 207: delayMicroseconds(3000) after the last pulse
TxPreambleGap ==
    /\ pc = "tx_preamble"
    /\ ~(pre < PrePulses)
    /\ wave' = Append(wave, Seg(pin, 3000))
    /\ elapsed' = After(3000)
    /\ pc' = "tx_sync"
    /\ UNCHANGED <<sensor_data, pin, payload, encVars, netVars, loopSecs, drift, rep, pre, bit, frames, txReading, txCount, writes>>

\* variant: the sync pulse sent without its leading 4200 us off time
TxSync_nolead ==
    /\ pc = "tx_sync"
    /\ wave' = wave \o <<Seg(1, 5700), Seg(0, 5200)>>
    /\ pin' = 0
    /\ elapsed' = After(5700 + 5200)
    /\ writes' = writes + 2
    /\ pc' = "encode"
    /\ UNCHANGED <<sensor_data, payload, encVars, netVars, loopSecs, drift, rep, pre, bit, frames, txReading, txCount>>

\* tx_sync, lines 180-187
TxSync ==
    /\ pc = "tx_sync"
    /\ wave' = wave \o <<Seg(0, 4200), Seg(1, 5700), Seg(0, 5200)>>
    /\ pin' = 0
    /\ elapsed' = After(4200 + 5700 + 5200)
    /\ writes' = writes + 3
    /\ pc' = "encode"
    /\ UNCHANGED <<sensor_data, payload, encVars, netVars, loopSecs, drift, rep, pre, bit, frames, txReading, txCount>>

\* line 233: tx_data(encode_data(data)) is entered with i = 0
TxEncode ==
    /\ pc = "encode"
    /\ payload' = encode_data(sensor_data)
    /\ frames' = Append(frames, payload')
    /\ bit' = 0
    /\ pc' = "tx_data"
    /\ UNCHANGED <<sensor_data, pin, encVars, netVars, timeVars, rep, pre, wave, txReading, txCount, writes>>

\* variant: the second half of a slot shortened for a 0 bit
TxSlot_skewed(w, i) ==
    LET b == w[i]
    IN  <<Seg(b, 1450), Seg(1 - b, IF b = 1 THEN 1475 ELSE 1450)>>

\* variant: the payload sent most significant bit first
TxSlot_msbfirst(w, i) ==
    LET b == w[31 - i]
    IN  <<Seg(b, 1450), Seg(1 - b, 1475)>>

\* lines 214-217 and tx_bit, lines 191-196: the two delays of bit i of w
TxSlot(w, i) ==
    LET b == w[i]
    IN  <<Seg(b, 1450), Seg(1 - b, 1475)>>

\* lines 213-218, one bit
TxBit ==
    /\ pc = "tx_data"
    /\ bit < FrameBits
    /\ wave' = wave \o TxSlot(payload, bit)
    /\ pin' = TxSlot(payload, bit)[2][1]
    /\ elapsed' = After(1450 + 1475)
    /\ bit' = bit + 1
    /\ writes' = writes + 2
    /\ UNCHANGED <<pc, sensor_data, payload, encVars, netVars, loopSecs, drift, rep, pre, frames, txReading, txCount>>

\* line 213, i < 32 is false: tx_data returns
TxDataEnd ==
    /\ pc = "tx_data"
    /\ ~(bit < FrameBits)
    /\ pc' = "tx_low"
    /\ UNCHANGED <<sensor_data, pin, payload, encVars, netVars, timeVars, txVars>>

\* variant: the pause without the digitalWrite(TX_PIN, LOW) before it
TxLowPause_nolow ==
    /\ pc = "tx_low"
    /\ wave' = Append(wave, Seg(pin, 100000))
    /\ elapsed' = After(100000)
    /\ rep' = rep + 1
    /\ pc' = "send_rep"
    /\ UNCHANGED <<sensor_data, pin, payload, encVars, netVars, loopSecs, drift, pre, bit, frames, txReading, txCount, writes>>

\* variant: the pause tries the broker once, and the attempt fails
TxLowPause_reconnect ==
    /\ pc = "tx_low"
    /\ pin' = 0
    /\ wave' = Append(wave, Seg(0, 100000))
    /\ elapsed' = After(100000)
    /\ rep' = rep + 1
    /\ writes' = writes + 1
    /\ mqttConnected' = FALSE
    /\ mqtt_error' = (mqtt_error + 1) % 256
    /\ failRun' = failRun + 1
    /\ pc' = "send_rep"
    /\ UNCHANGED <<sensor_data, payload, encVars, msg, recovered, retryGap, lastGood, loopSecs, drift, pre, bit, frames, txReading, txCount>>

\* variant: the 100 ms pause serves the MQTT client, which may call the handler
TxLowPause_serving ==
    /\ pc = "tx_low"
    /\ pin' = 0
    /\ wave' = Append(wave, Seg(0, 100000))
    /\ elapsed' = After(100000)
    /\ rep' = rep + 1
    /\ writes' = writes + 1
    /\ pc' = "send_rep"
    /\ \E m \in Messages : sensor_data' = mqtt_callback(sensor_data, m)
    /\ UNCHANGED <<payload, encVars, netVars, loopSecs, drift, pre, bit, frames, txReading, txCount>>

\* lines 234-235 and the i++ of line 230: LOW, delay(100)
TxLowPause ==
    /\ pc = "tx_low"
    /\ pin' = 0
    /\ wave' = Append(wave, Seg(0, 100000))
    /\ elapsed' = After(100000)
    /\ rep' = rep + 1
    /\ writes' = writes + 1
    /\ pc' = "send_rep"
    /\ UNCHANGED <<sensor_data, payload, encVars, netVars, loopSecs, drift, pre, bit, frames, txReading, txCount>>

\* line 230, i < 2 is false: send_data returns to line 280, loopSecs++
SendDataReturn ==
    /\ pc = "send_rep"
    /\ ~(rep < Reps)
    /\ loopSecs' = loopSecs + 1
    /\ wave' = <<>>
    /\ frames' = <<>>
    /\ txReading' = DefaultReading
    /\ writes' = 0
    /\ pc' = "loop"
    /\ UNCHANGED <<sensor_data, pin, payload, encVars, netVars, elapsed, drift, rep, pre, bit, txCount>>

Next ==
    \/ Setup
    \/ ConnectWifiBegin
    \/ ConnectWifiWait
    \/ ConnectWifiDone
    \/ Elapse
    \/ LoopWifiUp
    \/ LoopWifiDown
    \/ MqttConnected
    \/ MqttNotConnected
    \/ ConnectMqttOk
    \/ ConnectMqttFail
    \/ ConnectMqttRestart
    \/ MqttLoopIdle
    \/ MqttLoopDeliver
    \/ MqttCallback
    \/ TickNotDue
    \/ TickWait
    \/ TickSend
    \/ SendDataBegin
    \/ SendDataRep
    \/ TxPreamblePulse
    \/ TxPreambleGap
    \/ TxSync
    \/ TxEncode
    \/ TxBit
    \/ TxDataEnd
    \/ TxLowPause
    \/ SendDataReturn

Spec == Init /\ [][Next]_vars

\* the step reads WiFi.status() == WL_CONNECTED (line 68 or line 261)
WifiReadsUp ==
    \/ pc = "loop" /\ pc' = "mqtt_check"
    \/ pc \in {"setup_wifi_wait", "loop_wifi_wait"} /\ pc' \in {"loop", "tick"}

\* the step finds the broker connected or connects to it (lines 110, 118, 262)
BrokerReadsUp ==
    \/ pc \in {"mqtt_check", "connect_mqtt"} /\ pc' = "mqtt_loop"
    \/ pc = "mqtt_connect" /\ mqttConnected'

\* The sketch is the only thread and never blocks except in its delays: it
\* always goes on to its next statement.  What the network answers is not
\* its choice: no step in which the link or the broker is found up is ever
\* bound to happen.  (A poll of connect_wifi after elapsed has reached
\* ElapsedCap changes nothing: polling for ever shows as stuttering.)
SpecLive == Init /\ [][Next]_vars /\ WF_vars(Next /\ ~WifiReadsUp /\ ~BrokerReadsUp)

(***************************************************************************)
(* Specification of the pure functions: one call of encode_data on a       *)
(* reading, then one call of calc_crc on the frame's low 24 bits under     *)
(* some other high byte.                                                   *)
(***************************************************************************)
InitEnc ==
    /\ pc = "enc_call"
    /\ sensor_data \in Readings
    /\ payload = ZeroWord
    /\ crcIn = ZeroWord
    /\ crcOut = 0
    /\ pin = 0
    /\ mqttConnected = FALSE
    /\ mqtt_error = 0
    /\ msg = NoMsg
    /\ elapsed = 0
    /\ loopSecs = 0
    /\ drift = 0
    /\ rep = 0
    /\ pre = 0
    /\ bit = 0
    /\ wave = <<>>
    /\ frames = <<>>
    /\ txReading = DefaultReading
    /\ txCount = 0
    /\ writes = 0
    /\ failRun = 0
    /\ recovered = FALSE
    /\ retryGap = 0
    /\ lastGood = NoMsg

EncodeCall ==
    /\ pc = "enc_call"
    /\ payload' = encode_data(sensor_data)
    /\ pc' = "enc_done"
    /\ UNCHANGED <<sensor_data, pin, encVars, netVars, timeVars, txVars>>

CrcCall ==
    /\ pc = "enc_done"
    /\ \E hi \in HiBytes :
          /\ crcIn' = [i \in BitPos |-> IF i < 24 THEN payload[i] ELSE U32(hi)[i - 24]]
          /\ crcOut' = calc_crc(crcIn')
    /\ pc' = "crc_done"
    /\ UNCHANGED <<sensor_data, pin, payload, netVars, timeVars, txVars>>

NextEnc == EncodeCall \/ CrcCall

SpecEnc == InitEnc /\ [][NextEnc]_vars

(***************************************************************************)
(* Specification of tx_data alone: one call on any of a set of 32-bit      *)
(* payloads, with the pin at either level.                                 *)
(***************************************************************************)
TestFrames ==
    { ZeroWord,
      [i \in BitPos |-> 1],
      [i \in BitPos |-> i % 2],
      [i \in BitPos |-> (i + 1) % 2],
      U32(1),
      Shl(U32(1), 31),
      [i \in BitPos |-> IF i < 16 THEN 1 ELSE 0],
      encode_data(DefaultReading),
      encode_data([addr |-> 13, ch |-> 0, temp |-> -530, lowbat |-> TRUE]) }

InitTx ==
    /\ pc = "tx_data"
    /\ payload \in TestFrames
    /\ pin \in {0, 1}
    /\ bit = 0
    /\ wave = <<>>
    /\ sensor_data = DefaultReading
    /\ crcIn = ZeroWord
    /\ crcOut = 0
    /\ mqttConnected = FALSE
    /\ mqtt_error = 0
    /\ msg = NoMsg
    /\ elapsed = 0
    /\ loopSecs = 0
    /\ drift = 0
    /\ rep = 0
    /\ pre = 0
    /\ frames = <<>>
    /\ txReading = DefaultReading
    /\ txCount = 0
    /\ writes = 0
    /\ failRun = 0
    /\ recovered = FALSE
    /\ retryGap = 0
    /\ lastGood = NoMsg

NextTx == TxBit \/ TxDataEnd

SpecTx == InitTx /\ [][NextTx]_vars

(***************************************************************************)
(* Specification of send_data alone: one call on any of a set of readings, *)
(* with the pin at either level, on a clock that only the delays advance.  *)
(***************************************************************************)
SendReadings ==
    {r \in Readings : /\ r.addr \in {4, 13}
                      /\ r.ch \in {1, 255}
                      /\ r.temp \in {-9900, -530, 0, 2100, 9899}}

InitSend ==
    /\ pc = "send_data"
    /\ sensor_data \in SendReadings
    /\ pin \in {0, 1}
    /\ payload = ZeroWord
    /\ crcIn = ZeroWord
    /\ crcOut = 0
    /\ mqttConnected = FALSE
    /\ mqtt_error = 0
    /\ msg = NoMsg
    /\ elapsed = 0
    /\ loopSecs = 0
    /\ drift = 0
    /\ rep = 0
    /\ pre = 0
    /\ bit = 0
    /\ wave = <<>>
    /\ frames = <<>>
    /\ txReading = DefaultReading
    /\ txCount = 0
    /\ writes = 0
    /\ failRun = 0
    /\ recovered = FALSE
    /\ retryGap = 0
    /\ lastGood = NoMsg

NextSend ==
    \/ SendDataBegin
    \/ SendDataRep
    \/ TxPreamblePulse
    \/ TxPreambleGap
    \/ TxSync
    \/ TxEncode
    \/ TxBit
    \/ TxDataEnd
    \/ TxLowPause
    \/ SendDataReturn

SpecSend == InitSend /\ [][NextSend]_vars

(***************************************************************************)
(* Reading a frame back (the receiver's view of the layout)                *)
(***************************************************************************)
RECURSIVE FieldVal(_, _, _)
FieldVal(w, off, len) ==
    IF len = 0 THEN 0 ELSE w[off] + 2 * FieldVal(w, off + 1, len - 1)

\* the checksum of section 4.1 over the three data bytes
Checksum(w) ==
    LET s == FieldVal(w, 16, 8) + FieldVal(w, 8, 8) + FieldVal(w, 0, 8)
    IN  ((s \div 256) + (s % 256)) % 256

InRange(temp) == temp > -9900 /\ temp < 9900

Encoded == pc \in {"enc_done", "crc_done"}

\* C1: every frame returned by encode_data carries in bits 24-31 the checksum
\* of its bits 0-23 (byte sum, carry folded, mod 256), and calc_crc ignores
\* bits 24-31 of its argument.
C1_Checksum ==
    /\ Encoded => FieldVal(payload, 24, 8) = Checksum(payload)
    /\ pc = "crc_done" =>
          /\ crcOut = Checksum(crcIn)
          /\ crcOut = FieldVal(payload, 24, 8)

\* a frame whose byte sum carries, checked again under a non-zero high byte
C1_Witness ==
    /\ pc = "crc_done"
    /\ FieldVal(crcIn, 24, 8) = 255
    /\ FieldVal(payload, 16, 8) + FieldVal(payload, 8, 8) + FieldVal(payload, 0, 8) > 255
    /\ crcOut = FieldVal(payload, 24, 8)

\* the three temperature nibbles read as one decimal number
Digits(w) == 100 * FieldVal(w, 16, 4) + 10 * FieldVal(w, 12, 4) + FieldVal(w, 8, 4)

\* address, channel and battery fields as the layout defines them
HeaderFields(w, data) ==
    /\ FieldVal(w, 0, 3) = data.addr % 8
    /\ FieldVal(w, 6, 2) = (data.ch + 3) % 4
    /\ w[23] = (IF data.lowbat THEN 1 ELSE 0)

\* C2: for a temperature strictly between -99 and 99 the frame decodes to
\* address mod 8, (channel - 1) mod 4, the battery flag, sign bit 21 set
\* exactly for a negative temperature, and (for a temperature that is a whole
\* number of tenths) the hundreds, tens and units digits of its magnitude in
\* tenths at bit offsets 16, 12 and 8.
C2_RoundTrip ==
    (Encoded /\ InRange(sensor_data.temp)) =>
        /\ HeaderFields(payload, sensor_data)
        /\ payload[21] = (IF sensor_data.temp < 0 THEN 1 ELSE 0)
        /\ sensor_data.temp % 10 = 0 =>
              /\ FieldVal(payload, 16, 4) = (Abs(sensor_data.temp) \div 1000) % 10
              /\ FieldVal(payload, 12, 4) = (Abs(sensor_data.temp) \div 100) % 10
              /\ FieldVal(payload, 8, 4) = (Abs(sensor_data.temp) \div 10) % 10
        /\ sensor_data = DefaultReading =>
              /\ FieldVal(payload, 0, 3) = 4
              /\ FieldVal(payload, 6, 2) = 0
              /\ Digits(payload) = 210
              /\ payload[21] = 0
              /\ payload[23] = 0

\* -5.3 degrees on address 13, channel 0: sign 1, digits 0,5,3, address 5,
\* channel field 3
C2_Witness ==
    /\ pc = "enc_done"
    /\ sensor_data = [addr |-> 13, ch |-> 0, temp |-> -530, lowbat |-> TRUE]
    /\ payload[21] = 1
    /\ FieldVal(payload, 16, 4) = 0
    /\ FieldVal(payload, 12, 4) = 5
    /\ FieldVal(payload, 8, 4) = 3
    /\ FieldVal(payload, 0, 3) = 5
    /\ FieldVal(payload, 6, 2) = 3
    /\ payload[23] = 1

\* C6: for a temperature <= -99 or >= 99 the digit nibbles (bits 8-19) and the
\* sign bit 21 are all zero, while address, channel, battery flag and checksum
\* are encoded as usual.
C6_OutOfRange ==
    (Encoded /\ ~InRange(sensor_data.temp)) =>
        /\ FieldVal(payload, 8, 12) = 0
        /\ payload[21] = 0
        /\ HeaderFields(payload, sensor_data)
        /\ FieldVal(payload, 24, 8) = Checksum(payload)

\* exactly -99.0 with the battery flag set
C6_Witness ==
    /\ pc = "enc_done"
    /\ sensor_data.temp = -9900
    /\ sensor_data.lowbat
    /\ sensor_data.addr = 255
    /\ payload[21] = 0
    /\ payload[23] = 1
    /\ FieldVal(payload, 8, 12) = 0

\* C7 as stated: the encoded magnitude is |temperature| * 10 rounded to the
\* nearest integer.
C7_Rounded ==
    (Encoded /\ InRange(sensor_data.temp)) =>
        Digits(payload) = (Abs(sensor_data.temp) + 5) \div 10

\* C7 as amended: the encoded magnitude is |temperature| * 10 with the
\* fraction dropped (truncated toward zero), for temperatures given in
\* hundredths of a degree.
C7_Truncated ==
    (Encoded /\ InRange(sensor_data.temp)) =>
        Digits(payload) = Abs(sensor_data.temp) \div 10

\* 21.37 degrees encodes 2,1,3
C7_Witness ==
    /\ pc = "enc_done"
    /\ sensor_data.temp = 2137
    /\ FieldVal(payload, 16, 4) = 2
    /\ FieldVal(payload, 12, 4) = 1
    /\ FieldVal(payload, 8, 4) = 3

(***************************************************************************)
(* The waveform of one repetition as the protocol documents it             *)
(***************************************************************************)
\* delays per repetition: 12 * 2 preamble, the gap, 3 sync, 32 * 2 data, pause
RepLen == 24 + 1 + 3 + 64 + 1

\* the documented length of the q-th delay of a repetition, in microseconds
PhaseUs(q) ==
    IF q <= 24 THEN (IF q % 2 = 1 THEN 1250 ELSE 1750)
    ELSE IF q = 25 THEN 3000
    ELSE IF q = 26 THEN 4200
    ELSE IF q = 27 THEN 5700
    ELSE IF q = 28 THEN 5200
    ELSE IF q <= 92 THEN (IF q % 2 = 1 THEN 1450 ELSE 1475)
    ELSE 100000

\* position within its repetition of the k-th delay of a send_data call
PhasePos(k) == ((k - 1) % RepLen) + 1

InSendData == pc \in {"send_rep", "tx_preamble", "tx_sync", "encode", "tx_data", "tx_low"}

\* what a receiver reads from the 64 data delays that start after delay off:
\* the level of the first half of slot i becomes bit i
Received(w, off) == [i \in BitPos |-> w[off + 2 * i + 1][1]]

\* C3: tx_data sends the 32 bits least significant first, each slot holding
\* the pin at the bit's value for 1450 us and at its inverse for 1475 us, so
\* the first-half levels of the 32 slots, placed at positions 0..31, are the
\* payload.
C3_BitOrder ==
    pc \in {"tx_data", "tx_low"} =>
        /\ Len(wave) = 2 * bit
        /\ \A i \in 0..(bit - 1) :
              /\ wave[2 * i + 1] = <<payload[i], 1450>>
              /\ wave[2 * i + 2] = <<1 - payload[i], 1475>>
        /\ bit > 0 => pin = 1 - payload[bit - 1]
        /\ pc = "tx_low" => (bit = 32 /\ Received(wave, 0) = payload)

\* a payload whose lowest bit is 1 and highest bit is 0 has been sent
C3_Witness ==
    /\ pc = "tx_low"
    /\ payload[0] = 1
    /\ payload[31] = 0
    /\ payload[1] = 0
    /\ Received(wave, 0) = payload

\* The delays of a send_data call so far: at most two repetitions, and in each
\* the delays come in the order preamble (12 pulses, gap), sync (LOW 4200, HIGH
\* 5700, LOW 5200), 32 data slots, LOW with the 100 ms pause; nothing is
\* skipped, repeated or reordered, and the second repetition follows the
\* first one's pause.
C4_Shape ==
    /\ Len(wave) <= 2 * RepLen
    /\ \A k \in 1..Len(wave) :
          LET q == PhasePos(k)
          IN  /\ wave[k][2] = PhaseUs(q)
              /\ (q <= 24 /\ q % 2 = 0) => wave[k][1] = 1
              /\ q \in {25, 26, 28, 93} => wave[k][1] = 0
              /\ q = 27 => wave[k][1] = 1
              /\ (q >= 29 /\ q <= 92 /\ q % 2 = 0) => wave[k][1] = 1 - wave[k - 1][1]
    /\ InSendData => (rep <= 2 /\ Len(wave) >= rep * RepLen /\ Len(frames) <= 2)
    /\ pc = "tx_low" => Len(wave) = (rep + 1) * RepLen - 1
    /\ ~InSendData => wave = <<>>

\* C4: the shape above holds throughout, send_data is left only after two
\* complete repetitions and is entered only from the call at line 275.
C4_TwoRepetitions ==
    /\ []C4_Shape
    /\ [][/\ (InSendData /\ ~InSendData') =>
                (rep = 2 /\ Len(wave) = 2 * RepLen /\ Len(frames) = 2 /\ pc' = "loop")
          /\ (~InSendData /\ InSendData') => (pc = "send_data" /\ rep' = 0)]_vars

\* the second call of send_data since boot is about to return
C4_Witness ==
    /\ pc = "send_rep"
    /\ txCount = 2
    /\ rep = 2
    /\ Len(wave) = 2 * RepLen
    /\ wave[RepLen] = <<0, 100000>>
    /\ wave[RepLen + 2] = <<1, 1750>>

C8_ReadingStable ==
    /\ InSendData => (sensor_data = txReading /\ pc # "callback")
    /\ \A k \in 1..Len(frames) : frames[k] = frames[1]
    /\ (InSendData /\ rep = 2) => Len(frames) = 2

\* the second cycle since boot has sent a frame twice, for a reading that a
\* message set between the cycles
C8_Witness ==
    /\ pc = "send_rep"
    /\ rep = 2
    /\ txCount = 2
    /\ Len(frames) = 2
    /\ frames[1] = frames[2]
    /\ txReading = [ch |-> 2, addr |-> 13, temp |-> -530, lowbat |-> TRUE]
    /\ frames[1] # encode_data(DefaultReading)

\* C9: consecutive starts of send_data are 30 s of wall-clock time apart: the
\* 30 ticks between them are each taken exactly 1000 ms after the one before.
C9_Every30s ==
    (pc = "send_data" /\ txCount >= 1) => drift = 0


\* C10: a payload that deserializeJson rejects leaves all four fields of the
\* reading as they were; the reading changes only when the handler runs on a
\* payload that parses (or when the process restarts with its defaults).
C10_MalformedKeeps ==
    [][/\ (pc = "callback" /\ DeserializationError(msg)) => sensor_data' = sensor_data
       /\ sensor_data' # sensor_data =>
             \/ pc = "callback" /\ ~DeserializationError(msg)
             \/ pc' = "setup"]_vars

\* the handler has returned from a rejected payload and the reading is still
\* that of the valid message before it
C10_Witness ==
    /\ pc = "tick"
    /\ msg.kind = "garbage"
    /\ sensor_data = [ch |-> 2, addr |-> 13, temp |-> -530, lowbat |-> TRUE]

(***************************************************************************)
(* The retry loop of connect_mqtt                                          *)
(***************************************************************************)
\* the step is a call of mqtt.connect that fails
ConnectFails == pc = "mqtt_connect" /\ ~mqttConnected'

\* the step is the ESP.restart() of line 131
Restarts == pc = "mqtt_connect" /\ pc' = "setup"

\* every attempt that follows a failed one comes 5 s of delay after it
FiveSecondsApart == (pc = "mqtt_connect" /\ failRun > 0) => retryGap = 5000000

\* C11 as stated: while the broker stays unreachable the attempts are 5 s
\* apart and the restart is triggered by the 12th consecutive failed attempt,
\* neither by an earlier one nor by a 13th or later one.
C11_RestartAt12 ==
    /\ []FiveSecondsApart
    /\ [][/\ Restarts => failRun + 1 = 12
          /\ (ConnectFails /\ failRun + 1 = 12) => Restarts]_vars

\* C11 as amended: the attempts are 5 s apart, each of the first 12
\* consecutive failures is followed by the 5 s delay and another attempt, and
\* the restart is triggered by the 13th consecutive failed attempt, neither by
\* an earlier one nor by a later one.
C11_RestartAt13 ==
    /\ [](FiveSecondsApart /\ failRun <= 12)
    /\ [][/\ Restarts => failRun + 1 = 13
          /\ (ConnectFails /\ failRun + 1 = 13) => Restarts
          /\ (ConnectFails /\ failRun + 1 < 13) =>
                (pc' = "connect_mqtt" /\ failRun' = failRun + 1 /\ retryGap' = 5000000)]_vars

\* twelve attempts in a row have failed and the thirteenth is about to be made
C11_Witness ==
    /\ pc = "mqtt_connect"
    /\ failRun = 12
    /\ ~recovered
    /\ retryGap = 5000000
    /\ ~mqttConnected

(***************************************************************************)
(* Loss of connectivity                                                    *)
(***************************************************************************)
\* from some moment on the WiFi link is never found up, and nothing reaches
\* the broker over it
WifiLostForever == <>[][~WifiReadsUp /\ ~BrokerReadsUp]_vars

\* from some moment on the broker is never found connected
BrokerLostForever == <>[][~BrokerReadsUp]_vars

\* C12: if the WiFi link or the broker stays unavailable for ever, the process
\* restarts (and, the loss lasting, restarts again and again); no run waits
\* for connectivity for ever without restarting.  Runs that use up the tick
\* budget of the model are left aside.
C12_EscalatesToRestart ==
    ([](loopSecs < MaxSecs) /\ (WifiLostForever \/ BrokerLostForever))
        => []<><<Restarts>>_vars

\* C13: once the first cycle has started, every tick is taken the moment it
\* falls due, 1000 ms after the one before, whatever the broker, the network
\* or the payloads did in between (a restart begins a new count): failed
\* connects, reconnects and malformed payloads leave the starts of the cycles
\* where an error-free run has them.
C13_CadenceKept ==
    (pc = "tick" /\ txCount >= 1 /\ elapsed >= TickUs) => elapsed = TickUs

(***************************************************************************)
(* The reading and the messages                                            *)
(***************************************************************************)
\* the four fields a well-formed message stands for: a key it lacks reads as
\* 0 or false
MessageFields(m) ==
    [ch     |-> IF "channel" \in m.keys THEN m.channel ELSE 0,
     addr   |-> IF "address" \in m.keys THEN m.address ELSE 0,
     temp   |-> IF "temperature" \in m.keys THEN m.temperature ELSE 0,
     lowbat |-> IF "lowbattery" \in m.keys THEN m.lowbattery ELSE FALSE]

\* the reading that the messages handled so far leave
LatestReading == IF lastGood = NoMsg THEN DefaultReading ELSE MessageFields(lastGood)

\* frame w read back gives reading r
Decodes(w, r) ==
    /\ HeaderFields(w, r)
    /\ FieldVal(w, 24, 8) = Checksum(w)
    /\ IF InRange(r.temp)
       THEN Digits(w) = Abs(r.temp) \div 10 /\ w[21] = (IF r.temp < 0 THEN 1 ELSE 0)
       ELSE FieldVal(w, 8, 12) = 0 /\ w[21] = 0

\* C14: the reading is always that of the most recent well-formed message
\* handled (all four fields, the defaults before the first), whatever
\* messages came before it, and every frame a cycle sends decodes to the
\* reading as it is when the cycle starts.
C14_NoQueueing ==
    /\ sensor_data = LatestReading
    /\ InSendData =>
          /\ txReading = LatestReading
          /\ \A k \in 1..Len(frames) : Decodes(frames[k], LatestReading)

\* the second cycle has sent its two frames after a message with the
\* temperature only and then a malformed one were handled
C14_Witness ==
    /\ pc = "send_rep"
    /\ rep = 2
    /\ txCount = 2
    /\ msg.kind = "garbage"
    /\ lastGood.keys = {"temperature"}
    /\ sensor_data = [ch |-> 0, addr |-> 0, temp |-> 9900, lowbat |-> FALSE]
    /\ Len(frames) = 2
    /\ FieldVal(frames[2], 6, 2) = 3
    /\ frames[2] # encode_data(DefaultReading)

(***************************************************************************)
(* Duration of a transmission                                              *)
(***************************************************************************)
\* the summed length of delays lo..hi of w (halving keeps the evaluation shallow)
RECURSIVE DurationOf(_, _, _)
DurationOf(w, lo, hi) ==
    IF lo > hi THEN 0
    ELSE IF lo = hi THEN w[lo][2]
    ELSE LET mid == (lo + hi) \div 2
         IN  DurationOf(w, lo, mid) + DurationOf(w, mid + 1, hi)

Duration(w) == DurationOf(w, 1, Len(w))

\* the documented phases of one repetition, summed
RepUs == 12 * (1250 + 1750) + 3000 + (4200 + 5700 + 5200) + 32 * (1450 + 1475) + 100000

\* digitalWrite calls of one repetition: 2 per pulse, 3 in the sync, 2 per
\* bit, the closing LOW
RepWrites == 12 * 2 + 3 + 32 * 2 + 1

\* C15: when send_data is about to return, the delays it commanded add up to
\* 2 x (12 x (1250 + 1750) + 3000 + (4200 + 5700 + 5200) + 32 x (1450 + 1475)
\* + 100000) us = 495400 us, and their sum, their number and the number of
\* pin writes are the same for every reading and either starting level; at
\* the end of each repetition they are those of whole repetitions.
C15_Duration ==
    /\ pc = "send_rep" =>
          /\ Duration(wave) = rep * RepUs
          /\ Len(wave) = rep * RepLen
          /\ writes = rep * RepWrites
    /\ (pc = "send_rep" /\ rep = 2) =>
          /\ Duration(wave) = 495400
          /\ Duration(wave) = 2 * RepUs

\* a call for -5.3 degrees on address 13 is about to return
C15_Witness ==
    /\ pc = "send_rep"
    /\ rep = 2
    /\ sensor_data.temp = -530
    /\ sensor_data.addr = 13
    /\ sensor_data.lowbat
    /\ Duration(wave) = 495400
    /\ writes = 184

(***************************************************************************)
(* A cycle from its call to its return                                     *)
(***************************************************************************)
\* send_data has been called (line 275) and has not returned
Busy == pc = "send_data" \/ InSendData

\* C16: every call of send_data returns to loop, and from the call to the
\* return the only steps are send_data's own: the return comes after two
\* repetitions, nothing restarts the process, tries or reads the broker or
\* the link, runs the handler or changes the reading, and send_data is not
\* entered a second time.
C16_RunsToCompletion ==
    /\ Busy ~> (pc = "loop")
    /\ [][Busy =>
            /\ \/ InSendData'
               \/ pc = "send_rep" /\ rep = 2 /\ Len(frames) = 2 /\ pc' = "loop"
            /\ txCount' = (IF pc = "send_data" THEN txCount + 1 ELSE txCount)
            /\ UNCHANGED <<mqttConnected, mqtt_error, failRun, retryGap, msg,
                           lastGood, sensor_data>>]_vars

\* the second cycle since boot has returned to loop, in a run in which the
\* broker was connected and a malformed payload was handled
C16_Witness ==
    /\ pc = "loop"
    /\ txCount = 2
    /\ loopSecs = TxEvery + 1
    /\ mqttConnected
    /\ msg.kind = "garbage"
    /\ wave = <<>>

\* C17: whenever no cycle is in progress and at least one has completed since
\* boot, the pin is LOW: it is LOW when send_data returns, whatever bit 31 of
\* the frame was, and stays LOW through loop, the reconnect loops and the
\* handler until the next cycle drives it.
C17_NeverLeftKeyed ==
    /\ (~InSendData /\ txCount >= 1) => pin = 0
    /\ (pc = "send_rep" /\ rep >= 1) => pin = 0

\* the broker is being retried after a cycle whose frame ended in a 0 bit, so
\* that tx_data left the pin HIGH
C17_Witness ==
    /\ pc = "mqtt_connect"
    /\ failRun = 3
    /\ txCount = 1
    /\ payload[31] = 0
    /\ payload = encode_data(sensor_data)
    /\ pin = 0

\* C18: in every frame encode_data returns, whatever the address, channel,
\* temperature and battery flag, the reserved bits 3, 4, 5, 20 and 22 are 0
\* and each of the three temperature nibbles (bits 16-19, 12-15, 8-11) holds
\* a decimal digit 0-9.
C18_FieldsStayInside ==
    Encoded =>
        /\ \A i \in {3, 4, 5, 20, 22} : payload[i] = 0
        /\ \A off \in {16, 12, 8} : FieldVal(payload, off, 4) <= 9

\* address 255 and channel 255 at 98.99 degrees with the battery low: the
\* address field is 7 and the digits are 9, 8, 9
C18_Witness ==
    /\ pc = "enc_done"
    /\ sensor_data = [addr |-> 255, ch |-> 255, temp |-> 9899, lowbat |-> TRUE]
    /\ FieldVal(payload, 0, 3) = 7
    /\ FieldVal(payload, 16, 4) = 9
    /\ FieldVal(payload, 12, 4) = 8
    /\ FieldVal(payload, 8, 4) = 9
    /\ payload[20] = 0

(***************************************************************************)
(* The failure counter of connect_mqtt                                     *)
(***************************************************************************)
\* the step is a call of mqtt.connect that succeeds
ConnectSucceeds == pc = "mqtt_connect" /\ mqttConnected'

\* the step is the return of connect_mqtt to line 264
ConnectMqttReturns == pc = "connect_mqtt" /\ pc' = "mqtt_loop"

\* C19: mqtt_error is the number of connect attempts that failed since the
\* last one that succeeded (or since boot); a successful connect sets it to
\* 0, it is 0 whenever connect_mqtt has returned, and a restart comes only
\* with 12 failures in a row behind the failing attempt, however many
\* failures came before the last success.
C19_ConsecutiveOnly ==
    /\ [](/\ mqtt_error = failRun
          /\ mqttConnected => mqtt_error = 0
          /\ pc \notin {"connect_mqtt", "mqtt_connect"} => mqtt_error = 0)
    /\ [][/\ ConnectSucceeds => mqtt_error' = 0
          /\ ConnectMqttReturns => (mqtt_error = 0 /\ mqtt_error' = 0)
          /\ Restarts => failRun = 12]_vars

\* within one call of connect_mqtt a connect succeeded after failures, the
\* connection was lost and 12 more attempts failed: more than 12 failures
\* in all, and no restart
C19_Witness ==
    /\ pc = "mqtt_connect"
    /\ recovered
    /\ failRun = 12
    /\ mqtt_error = 12

(***************************************************************************)
(* The ticks on which a cycle starts                                       *)
(***************************************************************************)
\* frame w carries the built-in reading: address 4, channel 1 (field 0),
\* 21.0 degrees, battery good
CarriesDefault(w) ==
    /\ FieldVal(w, 0, 3) = 4
    /\ FieldVal(w, 6, 2) = 0
    /\ FieldVal(w, 16, 4) = 2
    /\ FieldVal(w, 12, 4) = 1
    /\ FieldVal(w, 8, 4) = 0
    /\ w[21] = 0
    /\ w[23] = 0
    /\ FieldVal(w, 24, 8) = Checksum(w)

\* a tick is being taken: line 272 finds 1000 ms elapsed
TickDue == pc = "tick" /\ elapsed >= TickUs /\ pc' # "tick"

\* C20: the tick with counter 0, the first after startup, starts a cycle, and
\* so does every tick whose counter is a multiple of 30 and no other: the
\* cycles started since boot are those of ticks 0, 30, 60, ...; and as long
\* as no well-formed message has been handled, every frame sent carries the
\* built-in reading.
C20_FirstTickAndDefault ==
    /\ [](/\ Busy => loopSecs % TxEvery = 0
          /\ txCount = (IF InSendData THEN (loopSecs \div TxEvery) + 1
                        ELSE (loopSecs + TxEvery - 1) \div TxEvery)
          /\ lastGood = NoMsg => \A k \in 1..Len(frames) : CarriesDefault(frames[k]))
    /\ [][TickDue =>
            IF loopSecs % TxEvery = 0
            THEN pc' = "send_data" /\ loopSecs' = loopSecs
            ELSE pc' = "loop" /\ loopSecs' = loopSecs + 1]_vars

\* the cycle of tick 30 has sent its two frames and only a malformed payload
\* has come in since boot
C20_Witness ==
    /\ pc = "send_rep"
    /\ rep = 2
    /\ txCount = 2
    /\ loopSecs = TxEvery
    /\ lastGood = NoMsg
    /\ msg.kind = "garbage"
    /\ Len(frames) = 2
    /\ CarriesDefault(frames[2])

====
